---- MODULE Spec2Model ----
(***************************************************************************)
(* The hash-map nodestore of plugins/ua_nodestore_hashmap.c as a state     *)
(* machine: the slot array with its double-hashing probes, the entry heap  *)
(* with reference counts and deferred deletion, resize, and the interface  *)
(* functions get / release / get_copy / insert / replace / remove /        *)
(* iterate.  Pointers are natural numbers: 0 is NULL, 1 is the tombstone,  *)
(* every entry lives at an address above the tombstone.                    *)
(***************************************************************************)
EXTENDS Integers, Sequences, FiniteSets, TLC

VARIABLES
    entries,        \* ns->entries: the slot array, index 0..size-1 -> pointer
    size,           \* ns->size
    count,          \* ns->count
    sizePrimeIndex, \* ns->sizePrimeIndex (index into primes, from 0)
    heap,           \* the allocator's blocks: address -> UA_NodeMapEntry or a free block
    borrowed,       \* caller side: address -> number of get() results not yet released
    copies,         \* caller side: the unpublished nodes from get_copy the caller still owns,
                    \* each with what happened to its NodeId since the copy was made
    bindings,       \* history: NodeId -> address of the entry the last successful
                    \* insert/replace published for it (ids inserted and not removed)
    iter,           \* UA_NodeMap_iterate in progress: loop index and pinned entry
    made,           \* caller side: how many nodes new_node and get_copy have made so far
    reader,         \* a findOccupiedSlot running outside the writer's lock: its locals
    pending,        \* an insertNode that another writer races with: its locals
    sample,         \* monitoredItem_sampleCallback in progress: its locals and what it
                    \* has done to the node so far
    last            \* the interface call that returned last: operation, NodeId, status

vars == <<entries, size, count, sizePrimeIndex, heap, borrowed, copies, bindings,
          iter, made, reader, pending, sample, last>>

store == <<entries, size, count, sizePrimeIndex>>

-----------------------------------------------------------------------------
(* Bounds of the exploration *)

\* at most this many get() results are outstanding at once
MaxBorrow == 2
\* at most this many get_copy results are held by the caller at once
MaxCopies == 2
\* the caller has at most this many nodes made (new_node, get_copy) in one run
MaxNodes == 3
\* node contents are one value of 0..MaxVal
MaxVal == 1

\* the NodeIds callers use (numeric, namespace 0); 2 and 3 have the same hash
Keys == {2, 3}

\* SpecCopy: the one NodeId the callers copy and replace
CopyKeys == {2}
\* SpecCopy: at most this many get_copy results are held at once
CopyCopies == 2
\* SpecCopy: at most this many get() results are outstanding at once
CopyBorrows == 1
\* SpecCopy: the callers have at most this many nodes made in one run
CopyNodes == 4

\* SpecTable: the NodeIds inserted and removed; 2 and 3, 5 and 6, 13 and 14 have
\* the same hash, and in a table of 7 slots 13 and 14 start their probes where 2
\* and 3 do
TableKeys == {2, 3, 5, 6, 13, 14}
\* SpecTable: the caller has at most this many nodes made in one run
TableNodes == 8

\* SpecLoad: the NodeIds inserted, one more than three quarters of 7 slots
LoadKeys == TableKeys \cup {21}
\* SpecLoad: the caller has at most this many nodes made in one run
LoadNodes == 9

\* SpecShrink: the caller has at most this many nodes made in one run, with the
\* NodeIds 1, 2, 3, ...: one more than fill a table of 31 slots to three quarters,
\* after one that was removed
ShrinkNodes == 26

\* SpecIterate: the caller has at most this many nodes made in one run
IterateNodes == 8

\* SpecReader: the writer has at most this many nodes made in one run
ReaderNodes == 3

\* SpecSample: at most this many nodes are made in one run
SampleNodes == 2

\* SpecRace: the two writers have at most this many nodes made in one run
RaceNodes == 3

\* SpecIds: the NodeId the caller inserts besides nodes with identifier 0; it is
\* the second identifier that insertNode tries in a table of 127 slots holding 2 nodes
IdKeys == {50005}
\* SpecIds: the caller has at most this many nodes made in one run
IdNodes == 4

\* SpecZeroId: the number of nodes in the store when the node with identifier 0 is
\* inserted, and how many of them carry the identifiers that insertNode tries first
ZeroIdCount == 190
ZeroIdTries == 177

\* SpecManyBorrows: one node and up to this many get() results outstanding
ManyBorrows == 65536

-----------------------------------------------------------------------------
(* Program constants *)

NULL == 0
UA_NODEMAP_TOMBSTONE == 1
UA_NODEMAP_MINSIZE == 64
\* "Start at least with 50,000"
StartId == 50000
\* the size below which clearSlot never shrinks
ShrinkFloor == 32
\* UA_UInt16 refCount
RefCountMod == 65536

\* the first primes of the ladder; the model never holds more than primes[Len(primes)]/2 nodes
primes == <<7, 13, 31, 61, 127, 251, 509>>

NoSlot == -1

Good == "Good"
BadOutOfMemory == "BadOutOfMemory"
BadNodeIdUnknown == "BadNodeIdUnknown"
BadNodeIdExists == "BadNodeIdExists"
BadInternalError == "BadInternalError"

-----------------------------------------------------------------------------
(* Hashing (UA_NodeId_hash, a collaborator of the store) *)

\* Knuth's multiplicative hash of a numeric NodeId in namespace 0: the high 32 bits
\* of numeric * 2654435761, computed in 16-bit limbs (2654435761 = 40503 * 2^16 + 31153)
UA_NodeId_hash(nodeid) ==
    (nodeid * 40503 + ((nodeid * 31153) \div 65536)) \div 65536

mod(h, sz) == h % sz
mod2(h, sz) == 1 + (h % (sz - 2))

-----------------------------------------------------------------------------
(* HashMap utilities *)

\* binary search of the ladder: the index (from 0) of the smallest prime >= n
RECURSIVE hpiLoop(_, _, _)
hpiLoop(n, low, high) ==
    IF low = high THEN low
    ELSE LET mid == low + ((high - low) \div 2)
         IN IF n > primes[mid + 1] THEN hpiLoop(n, mid + 1, high)
            ELSE hpiLoop(n, low, mid)

higher_prime_index(n) == hpiLoop(n, 0, Len(primes))

\* one step of the probe sequence: idx += hash2; if(idx >= size) idx -= size
probeNext(idx, hash2, sz) ==
    IF idx + hash2 >= sz THEN idx + hash2 - sz ELSE idx + hash2

\* the do-while loop of findFreeSlot over slot array ents of size sz, reading the
\* entries in mem
RECURSIVE findFreeLoop(_, _, _, _, _, _, _, _)
findFreeLoop(ents, sz, mem, h, nodeid, idx, startIdx, candidate) ==
    LET entry == ents[idx]
        cand == IF entry <= UA_NODEMAP_TOMBSTONE /\ candidate = NoSlot
                THEN idx ELSE candidate
        nxt == probeNext(idx, mod2(h, sz), sz)
    IN IF entry > UA_NODEMAP_TOMBSTONE
          /\ mem[entry].nodeIdHash = h /\ mem[entry].nodeId = nodeid
       THEN NoSlot
       ELSE IF entry = NULL THEN cand
       ELSE IF nxt = startIdx THEN cand
       ELSE findFreeLoop(ents, sz, mem, h, nodeid, nxt, startIdx, cand)

\* a faulty search that takes the first empty or tombstone slot of the probe
\* sequence without looking further for the nodeid
RECURSIVE findFirstFreeLoop(_, _, _, _, _, _, _)
findFirstFreeLoop(ents, sz, mem, h, nodeid, idx, startIdx) ==
    LET entry == ents[idx]
        nxt == probeNext(idx, mod2(h, sz), sz)
    IN IF entry > UA_NODEMAP_TOMBSTONE
          /\ mem[entry].nodeIdHash = h /\ mem[entry].nodeId = nodeid
       THEN NoSlot
       ELSE IF entry <= UA_NODEMAP_TOMBSTONE THEN idx
       ELSE IF nxt = startIdx THEN NoSlot
       ELSE findFirstFreeLoop(ents, sz, mem, h, nodeid, nxt, startIdx)

findFirstFreeSlot(ents, sz, mem, nodeid) ==
    LET h == UA_NodeId_hash(nodeid)
    IN findFirstFreeLoop(ents, sz, mem, h, nodeid, mod(h, sz), mod(h, sz))

\* Returns an empty slot or NoSlot if the nodeid exists or if no empty slot is found
findFreeSlot(ents, sz, mem, nodeid) ==
    LET h == UA_NodeId_hash(nodeid)
    IN findFreeLoop(ents, sz, mem, h, nodeid, mod(h, sz), mod(h, sz), NoSlot)

\* the do-while loop of findOccupiedSlot
RECURSIVE findOccupiedLoop(_, _, _, _, _, _, _)
findOccupiedLoop(ents, sz, mem, h, nodeid, idx, startIdx) ==
    LET entry == ents[idx]
        nxt == probeNext(idx, mod2(h, sz), sz)
    IN IF entry > UA_NODEMAP_TOMBSTONE
          /\ mem[entry].nodeIdHash = h /\ mem[entry].nodeId = nodeid
       THEN idx
       ELSE IF entry = NULL THEN NoSlot
       ELSE IF nxt = startIdx THEN NoSlot
       ELSE findOccupiedLoop(ents, sz, mem, h, nodeid, nxt, startIdx)

\* a faulty lookup that compares the cached hashes only, not the NodeIds
RECURSIVE findOccupiedByHashLoop(_, _, _, _, _, _)
findOccupiedByHashLoop(ents, sz, mem, h, idx, startIdx) ==
    LET entry == ents[idx]
        nxt == probeNext(idx, mod2(h, sz), sz)
    IN IF entry > UA_NODEMAP_TOMBSTONE /\ mem[entry].nodeIdHash = h
       THEN idx
       ELSE IF entry = NULL THEN NoSlot
       ELSE IF nxt = startIdx THEN NoSlot
       ELSE findOccupiedByHashLoop(ents, sz, mem, h, nxt, startIdx)

findOccupiedByHash(ents, sz, mem, nodeid) ==
    LET h == UA_NodeId_hash(nodeid)
    IN findOccupiedByHashLoop(ents, sz, mem, h, mod(h, sz), mod(h, sz))

findOccupiedSlot(ents, sz, mem, nodeid) ==
    LET h == UA_NodeId_hash(nodeid)
    IN findOccupiedLoop(ents, sz, mem, h, nodeid, mod(h, sz), mod(h, sz))

\* a faulty loop body that puts the pointer into the first slot of its probe
\* sequence, whatever is there
expandStepWithoutProbing(oents, cnt, mem, nsize, acc, i) ==
    IF ~(acc.j < cnt) \/ oents[i] <= UA_NODEMAP_TOMBSTONE THEN acc
    ELSE [nentries |-> [acc.nentries EXCEPT ![mod(mem[oents[i]].nodeIdHash, nsize)] = oents[i]],
          j |-> acc.j + 1]

\* one pass of the body of expand's for loop at index i: acc is the new array so far
\* and j, the number of entries moved; past j = cnt the loop has ended
expandStep(oents, cnt, mem, nsize, acc, i) ==
    IF ~(acc.j < cnt) \/ oents[i] <= UA_NODEMAP_TOMBSTONE THEN acc
    ELSE LET e == findFreeSlot(acc.nentries, nsize, mem, mem[oents[i]].nodeId)
         IN [nentries |-> IF e = NoSlot THEN acc.nentries
                          ELSE [acc.nentries EXCEPT ![e] = oents[i]],
             j |-> acc.j + 1]

\* the for loop of expand over the indices lo..hi in ascending order (split in
\* halves): recompute the position of every entry and insert the pointer
RECURSIVE expandLoop(_, _, _, _, _, _, _)
expandLoop(oents, cnt, mem, nsize, acc, lo, hi) ==
    IF lo > hi THEN acc
    ELSE IF lo = hi THEN expandStep(oents, cnt, mem, nsize, acc, lo)
    ELSE LET mid == (lo + hi) \div 2
             left == expandLoop(oents, cnt, mem, nsize, acc, lo, mid)
         IN IF left.j <= cnt
            THEN expandLoop(oents, cnt, mem, nsize, left, mid + 1, hi)
            ELSE left

\* a faulty expand that reports success when the new array cannot be allocated
expandIgnoringFailure(tbl, cnt, mem, allocOk) ==
    LET osize == tbl.size
        nindex == higher_prime_index(cnt * 2)
        nsize == primes[nindex + 1]
    IN IF cnt * 2 < osize /\ (cnt * 8 > osize \/ osize <= UA_NODEMAP_MINSIZE)
       THEN [status |-> Good, tbl |-> tbl]
       ELSE IF ~allocOk
       THEN [status |-> Good, tbl |-> tbl]
       ELSE [status |-> Good,
             tbl |-> [entries |-> expandLoop(tbl.entries, cnt, mem, nsize,
                                             [nentries |-> [i \in 0..(nsize - 1) |-> NULL],
                                              j |-> 0],
                                             0, osize - 1).nentries,
                      size |-> nsize,
                      sizePrimeIndex |-> nindex]]

\* a faulty expand that leaves a table alone until it is full (count < osize)
expandWhenFull(tbl, cnt, mem, allocOk) ==
    LET osize == tbl.size
        nindex == higher_prime_index(cnt * 2)
        nsize == primes[nindex + 1]
    IN IF cnt < osize /\ (cnt * 8 > osize \/ osize <= UA_NODEMAP_MINSIZE)
       THEN [status |-> Good, tbl |-> tbl]
       ELSE IF ~allocOk
       THEN [status |-> BadOutOfMemory, tbl |-> tbl]
       ELSE [status |-> Good,
             tbl |-> [entries |-> expandLoop(tbl.entries, cnt, mem, nsize,
                                             [nentries |-> [i \in 0..(nsize - 1) |-> NULL],
                                              j |-> 0],
                                             0, osize - 1).nentries,
                      size |-> nsize,
                      sizePrimeIndex |-> nindex]]

\* a faulty expand whose loop ends one entry early (j < count - 1)
expandMovingFewer(tbl, cnt, mem, allocOk) ==
    LET osize == tbl.size
        nindex == higher_prime_index(cnt * 2)
        nsize == primes[nindex + 1]
    IN IF cnt * 2 < osize /\ (cnt * 8 > osize \/ osize <= UA_NODEMAP_MINSIZE)
       THEN [status |-> Good, tbl |-> tbl]
       ELSE IF ~allocOk
       THEN [status |-> BadOutOfMemory, tbl |-> tbl]
       ELSE [status |-> Good,
             tbl |-> [entries |-> expandLoop(tbl.entries, cnt - 1, mem, nsize,
                                             [nentries |-> [i \in 0..(nsize - 1) |-> NULL],
                                              j |-> 0],
                                             0, osize - 1).nentries,
                      size |-> nsize,
                      sizePrimeIndex |-> nindex]]

\* expand(ns) on the table tbl = [entries, size, sizePrimeIndex] holding cnt nodes;
\* allocOk says whether UA_calloc of the new array succeeds
expand(tbl, cnt, mem, allocOk) ==
    LET osize == tbl.size
        nindex == higher_prime_index(cnt * 2)
        nsize == primes[nindex + 1]
    IN IF cnt * 2 < osize /\ (cnt * 8 > osize \/ osize <= UA_NODEMAP_MINSIZE)
       THEN [status |-> Good, tbl |-> tbl]
       ELSE IF ~allocOk
       THEN [status |-> BadOutOfMemory, tbl |-> tbl]
       ELSE [status |-> Good,
             tbl |-> [entries |-> expandLoop(tbl.entries, cnt, mem, nsize,
                                             [nentries |-> [i \in 0..(nsize - 1) |-> NULL],
                                              j |-> 0],
                                             0, osize - 1).nentries,
                      size |-> nsize,
                      sizePrimeIndex |-> nindex]]

-----------------------------------------------------------------------------
(* The allocator and the entry lifecycle *)

\* createEntry: a zeroed block (UA_calloc)
createEntry ==
    [nodeIdHash |-> 0, orig |-> NULL, refCount |-> 0, deleted |-> FALSE,
     nodeId |-> 0, val |-> 0]

\* freed blocks a caller's copy still points to through orig
StaleOrigs == {heap[c].orig : c \in DOMAIN copies} \ (DOMAIN heap \cup {NULL})

\* the addresses UA_calloc may return for a new entry: any freed block some
\* copy's orig still names, or else one block that nothing the code reads
\* refers to (those are interchangeable: the lowest one is taken)
AllocAddrs ==
    LET top == Cardinality(DOMAIN heap) + Cardinality(StaleOrigs) + 2
        rest == (2..top) \ (DOMAIN heap \cup StaleOrigs)
    IN StaleOrigs \cup {CHOOSE a \in rest : \A b \in rest : a <= b}

\* the memory mem with block a holding cell
store_block(mem, a, cell) ==
    [b \in DOMAIN mem \cup {a} |-> IF b = a THEN cell ELSE mem[b]]

\* a faulty deleteNodeMapEntry that frees nothing
deleteNothing(mem, a) == mem

\* deleteNodeMapEntry: UA_Node_clear and UA_free; the block is no longer part of mem
deleteNodeMapEntry(mem, a) == [b \in DOMAIN mem \ {a} |-> mem[b]]

\* a faulty cleanup that never frees
cleanupNothing(mem, a) == mem

cleanupNodeMapEntry(mem, a) ==
    IF mem[a].deleted /\ mem[a].refCount = 0
    THEN deleteNodeMapEntry(mem, a)
    ELSE mem

\* a faulty clearSlot that does not decrement count
clearSlotKeepingCount(tbl, cnt, mem, slot, allocOk) ==
    LET entry == tbl.entries[slot]
        tbl1 == [tbl EXCEPT !.entries[slot] = UA_NODEMAP_TOMBSTONE]
        mem1 == cleanupNodeMapEntry([mem EXCEPT ![entry].deleted = TRUE], entry)
    IN [status |-> Good,
        tbl |-> IF cnt * 8 < tbl1.size /\ tbl1.size > ShrinkFloor
                THEN expand(tbl1, cnt, mem1, allocOk).tbl
                ELSE tbl1,
        count |-> cnt,
        mem |-> mem1]

\* a faulty clearSlot that leaves the slot empty instead of a tombstone
clearSlotToEmpty(tbl, cnt, mem, slot, allocOk) ==
    LET entry == tbl.entries[slot]
        tbl1 == [tbl EXCEPT !.entries[slot] = NULL]
        mem1 == cleanupNodeMapEntry([mem EXCEPT ![entry].deleted = TRUE], entry)
        cnt1 == cnt - 1
    IN [status |-> Good,
        tbl |-> IF cnt1 * 8 < tbl1.size /\ tbl1.size > ShrinkFloor
                THEN expand(tbl1, cnt1, mem1, allocOk).tbl
                ELSE tbl1,
        count |-> cnt1,
        mem |-> mem1]

\* clearSlot(ns, slot) on table tbl with cnt nodes: tombstone the slot, mark the
\* entry deleted, clean it up, decrement count and shrink a very empty table
clearSlot(tbl, cnt, mem, slot, allocOk) ==
    LET entry == tbl.entries[slot]
        tbl1 == [tbl EXCEPT !.entries[slot] = UA_NODEMAP_TOMBSTONE]
        mem1 == cleanupNodeMapEntry([mem EXCEPT ![entry].deleted = TRUE], entry)
        cnt1 == cnt - 1
    IN [status |-> Good,
        tbl |-> IF cnt1 * 8 < tbl1.size /\ tbl1.size > ShrinkFloor
                THEN expand(tbl1, cnt1, mem1, allocOk).tbl
                ELSE tbl1,
        count |-> cnt1,
        mem |-> mem1]

theTable == [entries |-> entries, size |-> size, sizePrimeIndex |-> sizePrimeIndex]

\* a faulty loop body that takes a free slot only for identifiers from 50000 on
identifierStepAboveStart(tbl, mem, sz, increase, startId, acc) ==
    LET slot == findFreeSlot(tbl.entries, tbl.size, mem, acc.numeric)
        nxt == IF acc.numeric + increase >= sz
               THEN acc.numeric + increase - sz ELSE acc.numeric + increase
    IN IF acc.done THEN acc
       ELSE IF slot # NoSlot /\ acc.numeric >= StartId
       THEN [slot |-> slot, numeric |-> acc.numeric, done |-> TRUE]
       ELSE IF nxt = startId THEN [slot |-> NoSlot, numeric |-> acc.numeric, done |-> TRUE]
       ELSE [slot |-> NoSlot, numeric |-> nxt, done |-> FALSE]

\* one pass of the body of insertNode's do-while loop that tries identifiers for a
\* node inserted with numeric identifier 0: acc is the identifier to try, the slot
\* found and whether the loop has ended
identifierStep(tbl, mem, sz, increase, startId, acc) ==
    LET slot == findFreeSlot(tbl.entries, tbl.size, mem, acc.numeric)
        nxt == IF acc.numeric + increase >= sz
               THEN acc.numeric + increase - sz ELSE acc.numeric + increase
    IN IF acc.done THEN acc
       ELSE IF slot # NoSlot THEN [slot |-> slot, numeric |-> acc.numeric, done |-> TRUE]
       ELSE IF nxt = startId THEN [slot |-> NoSlot, numeric |-> acc.numeric, done |-> TRUE]
       ELSE [slot |-> NoSlot, numeric |-> nxt, done |-> FALSE]

\* n passes of that loop (split in halves)
RECURSIVE identifierLoop(_, _, _, _, _, _, _)
identifierLoop(tbl, mem, sz, increase, startId, acc, n) ==
    IF acc.done \/ n = 0 THEN acc
    ELSE IF n = 1 THEN identifierStep(tbl, mem, sz, increase, startId, acc)
    ELSE LET first == identifierLoop(tbl, mem, sz, increase, startId, acc, n \div 2)
         IN IF first.done THEN first
            ELSE identifierLoop(tbl, mem, sz, increase, startId, first, n - (n \div 2))

\* the number of passes after which that loop has ended or repeats its identifiers
\* for ever: the identifier falls below size within (start / 1) passes and then
\* cycles through size values
identifierPasses(sz) == StartId + 2 * sz + 2

\* lines 321-349 of insertNode: the slot for the node and the NodeId it ends up with.
\* mod(50000 + size + 1, UA_UINT32_MAX) is 50000 + size + 1 for every size of the ladder
\* modelled here
chooseSlot(tbl, cnt, mem, nodeid) ==
    IF nodeid = 0
    THEN identifierLoop(tbl, mem, tbl.size, mod2(cnt + 1, tbl.size),
                        StartId + tbl.size + 1,
                        [slot |-> NoSlot, numeric |-> StartId + tbl.size + 1, done |-> FALSE],
                        identifierPasses(tbl.size))
    ELSE [slot |-> findFreeSlot(tbl.entries, tbl.size, mem, nodeid), numeric |-> nodeid,
          done |-> TRUE]

-----------------------------------------------------------------------------
(* Caller-side bookkeeping *)

Borrows(a) == IF a \in DOMAIN borrowed THEN borrowed[a] ELSE 0

RECURSIVE SumBorrows(_)
SumBorrows(S) ==
    IF S = {} THEN 0
    ELSE LET a == CHOOSE x \in S : TRUE IN borrowed[a] + SumBorrows(S \ {a})

TotalBorrows == SumBorrows(DOMAIN borrowed)

addBorrow(a) == [b \in DOMAIN borrowed \cup {a} |-> Borrows(b) + (IF b = a THEN 1 ELSE 0)]

dropBorrow(a) ==
    [b \in {x \in DOMAIN borrowed : x # a \/ borrowed[x] > 1} |->
        borrowed[b] - (IF b = a THEN 1 ELSE 0)]

\* f without the key k
without(f, k) == [x \in DOMAIN f \ {k} |-> f[x]]

\* f with k bound to v
with(f, k, v) == [x \in DOMAIN f \cup {k} |-> IF x = k THEN v ELSE f[x]]

\* the caller's copies of NodeId k other than c, marked by what just happened to k
markCopies(cs, mem, k, c, field) ==
    [x \in DOMAIN cs \ {c} |->
        IF mem[x].nodeId = k THEN [cs[x] EXCEPT ![field] = TRUE] ELSE cs[x]]

-----------------------------------------------------------------------------
(* The store after construction: UA_Nodestore_HashMap *)

\* no UA_NodeMap_iterate is running
iterIdle == [active |-> FALSE, i |-> 0, cur |-> NULL, start |-> {}, seen |-> {}]

\* no raced insertNode is running
\* no sample callback is running; the fields keep what the last one did
sampleIdle ==
    [pc |-> "idle", nodeid |-> 0, sub |-> FALSE, node |-> NULL, storageType |-> "DATA",
     movedValue |-> FALSE, retval |-> Good, gets |-> 0, releases |-> 0,
     queued |-> FALSE, called |-> FALSE, stale |-> FALSE]

pendingIdle == [pc |-> "idle", node |-> NULL, slot |-> 0, free |-> NULL, oldEntry |-> NULL]

\* no findOccupiedSlot is running outside the lock
readerIdle ==
    [pc |-> "idle", nodeid |-> 0, idx |-> 0, startIdx |-> 0, entry |-> NULL,
     freed |-> FALSE]

Init ==
    /\ sizePrimeIndex = higher_prime_index(UA_NODEMAP_MINSIZE)
    /\ size = primes[higher_prime_index(UA_NODEMAP_MINSIZE) + 1]
    /\ count = 0
    /\ entries = [i \in 0..(primes[higher_prime_index(UA_NODEMAP_MINSIZE) + 1] - 1) |-> NULL]
    /\ heap = <<>>
    /\ borrowed = <<>>
    /\ copies = <<>>
    /\ bindings = <<>>
    /\ iter = iterIdle
    /\ made = 0
    /\ reader = readerIdle
    /\ pending = pendingIdle
    /\ sample = sampleIdle
    /\ last = [op |-> "init", id |-> 0, status |-> Good]

setTable(tbl) ==
    /\ entries' = tbl.entries
    /\ size' = tbl.size
    /\ sizePrimeIndex' = tbl.sizePrimeIndex

-----------------------------------------------------------------------------
(* Interface functions *)

\* UA_NodeMap_getNode
GetNode(nodeid) ==
    LET slot == findOccupiedSlot(entries, size, heap, nodeid)
    IN IF slot = NoSlot
       THEN /\ last' = [op |-> "get", id |-> nodeid, status |-> BadNodeIdUnknown]
            /\ UNCHANGED <<store, heap, borrowed, copies, bindings, iter, made, reader, pending, sample>>
       ELSE LET entry == entries[slot]
            IN /\ heap' = [heap EXCEPT ![entry].refCount = (@ + 1) % RefCountMod]
               /\ borrowed' = addBorrow(entry)
               /\ last' = [op |-> "get", id |-> nodeid, status |-> Good]
               /\ UNCHANGED <<store, copies, bindings, iter, made, reader, pending, sample>>

\* UA_NodeMap_releaseNode of a node the caller got from getNode
ReleaseNode(entry) ==
    /\ entry \in DOMAIN borrowed
    /\ heap' = cleanupNodeMapEntry(
                  [heap EXCEPT ![entry].refCount = (@ - 1) % RefCountMod], entry)
    /\ borrowed' = dropBorrow(entry)
    /\ last' = [op |-> "release", id |-> heap[entry].nodeId, status |-> Good]
    /\ UNCHANGED <<store, copies, bindings, iter, made, reader, pending, sample>>

\* UA_NodeMap_getNodeCopy; newItem is the block createEntry returns, memOk says
\* whether createEntry and UA_Node_copy get their memory
GetNodeCopy(nodeid, newItem, memOk) ==
    LET slot == findOccupiedSlot(entries, size, heap, nodeid)
    IN IF slot = NoSlot
       THEN /\ last' = [op |-> "get_copy", id |-> nodeid, status |-> BadNodeIdUnknown]
            /\ UNCHANGED <<store, heap, borrowed, copies, bindings, iter, made, reader, pending, sample>>
       ELSE IF ~memOk
       THEN /\ last' = [op |-> "get_copy", id |-> nodeid, status |-> BadOutOfMemory]
            /\ UNCHANGED <<store, heap, borrowed, copies, bindings, iter, made, reader, pending, sample>>
       ELSE LET entry == entries[slot]
            IN /\ newItem \in AllocAddrs
               /\ made' = made + 1
               /\ UNCHANGED <<reader, pending, sample>>
               /\ heap' = store_block(heap, newItem,
                            [createEntry EXCEPT !.nodeId = heap[entry].nodeId,
                                                !.val = heap[entry].val,
                                                !.orig = entry])
               /\ copies' = with(copies, newItem, [removed |-> FALSE, replaced |-> FALSE])
               /\ last' = [op |-> "get_copy", id |-> nodeid, status |-> Good]
               /\ UNCHANGED <<store, borrowed, bindings, iter>>

\* a faulty copy that shares its contents with the original: a change of the copy
\* shows in the original while that is allocated
EditShared(c, v) ==
    /\ c \in DOMAIN copies
    /\ v # heap[c].val
    /\ heap' = [a \in DOMAIN heap |->
                  IF a \in {c, heap[c].orig} THEN [heap[a] EXCEPT !.val = v] ELSE heap[a]]
    /\ last' = [op |-> "edit", id |-> heap[c].nodeId, status |-> Good]
    /\ UNCHANGED <<store, borrowed, copies, bindings, iter, made, reader, pending, sample>>

\* the caller changes the contents of a copy it owns
EditCopy(c, v) ==
    /\ c \in DOMAIN copies
    /\ v # heap[c].val
    /\ heap' = [heap EXCEPT ![c].val = v]
    /\ last' = [op |-> "edit", id |-> heap[c].nodeId, status |-> Good]
    /\ UNCHANGED <<store, borrowed, copies, bindings, iter, made, reader, pending, sample>>

\* UA_NodeMap_deleteNode of a copy the caller owns
DeleteNode(c) ==
    /\ c \in DOMAIN copies
    /\ heap' = deleteNodeMapEntry(heap, c)
    /\ copies' = without(copies, c)
    /\ last' = [op |-> "delete_node", id |-> heap[c].nodeId, status |-> Good]
    /\ UNCHANGED <<store, borrowed, bindings, iter, made, reader, pending, sample>>

\* UA_NodeMap_removeNode; allocOk says whether a shrink gets its new array
RemoveNode(nodeid, allocOk) ==
    LET slot == findOccupiedSlot(entries, size, heap, nodeid)
    IN IF slot = NoSlot
       THEN /\ last' = [op |-> "remove", id |-> nodeid, status |-> BadNodeIdUnknown]
            /\ UNCHANGED <<store, heap, borrowed, copies, bindings, iter, made, reader, pending, sample>>
       ELSE LET r == clearSlot(theTable, count, heap, slot, allocOk)
            IN /\ setTable(r.tbl)
               /\ count' = r.count
               /\ heap' = r.mem
               /\ copies' = markCopies(copies, heap, nodeid, NULL, "removed")
               /\ bindings' = without(bindings, nodeid)
               /\ last' = [op |-> "remove", id |-> nodeid, status |-> r.status]
               /\ UNCHANGED <<borrowed, iter, made, reader, pending, sample>>

\* UA_NodeMap_insertNode of a node the caller got from new_node (block node) and gave
\* the NodeId nodeid; allocOk says whether a resize gets its new array, outOk whether
\* addedNodeId is NULL or UA_NodeId_copy into it succeeds
InsertNode(nodeid, node, allocOk, outOk) ==
    LET opname == IF nodeid = 0 THEN "insert0" ELSE "insert"
        mem0 == store_block(heap, node, [createEntry EXCEPT !.nodeId = nodeid])
        ex == IF size * 3 <= count * 4
              THEN expand(theTable, count, mem0, allocOk)
              ELSE [status |-> Good, tbl |-> theTable]
        ch == chooseSlot(ex.tbl, count, mem0, nodeid)
        mem1 == [mem0 EXCEPT ![node].nodeId = ch.numeric]
    IN /\ node \in AllocAddrs
       /\ made' = made + 1
       /\ UNCHANGED <<reader, pending, sample>>
       /\ IF ex.status # Good
          THEN /\ heap' = mem0
               /\ last' = [op |-> opname, id |-> nodeid, status |-> BadInternalError]
               /\ UNCHANGED <<store, borrowed, copies, bindings, iter>>
          ELSE IF ch.slot = NoSlot
          THEN /\ setTable(ex.tbl)
               /\ heap' = deleteNodeMapEntry(mem1, node)
               /\ last' = [op |-> opname, id |-> ch.numeric, status |-> BadNodeIdExists]
               /\ UNCHANGED <<count, borrowed, copies, bindings, iter>>
          ELSE IF ~outOk
          THEN /\ setTable(ex.tbl)
               /\ heap' = deleteNodeMapEntry(mem1, node)
               /\ last' = [op |-> opname, id |-> ch.numeric, status |-> BadOutOfMemory]
               /\ UNCHANGED <<count, borrowed, copies, bindings, iter>>
          ELSE /\ setTable([ex.tbl EXCEPT !.entries[ch.slot] = node])
               /\ heap' = [mem1 EXCEPT ![node].nodeIdHash = UA_NodeId_hash(ch.numeric)]
               /\ count' = count + 1
               /\ bindings' = with(bindings, ch.numeric, node)
               /\ last' = [op |-> opname, id |-> ch.numeric, status |-> Good]
               /\ UNCHANGED <<borrowed, copies, iter>>

\* UA_NodeMap_replaceNode with a copy the caller owns
ReplaceNode(newEntry) ==
    LET nodeid == heap[newEntry].nodeId
        slot == findOccupiedSlot(entries, size, heap, nodeid)
        oldEntry == entries[slot]
    IN /\ newEntry \in DOMAIN copies
       /\ IF slot = NoSlot
          THEN /\ heap' = deleteNodeMapEntry(heap, newEntry)
               /\ copies' = without(copies, newEntry)
               /\ last' = [op |-> "replace", id |-> nodeid, status |-> BadNodeIdUnknown]
               /\ UNCHANGED <<store, borrowed, bindings, iter, made, reader, pending, sample>>
          ELSE IF oldEntry # heap[newEntry].orig
          THEN /\ heap' = deleteNodeMapEntry(heap, newEntry)
               /\ copies' = without(copies, newEntry)
               /\ last' = [op |-> "replace", id |-> nodeid, status |-> BadInternalError]
               /\ UNCHANGED <<store, borrowed, bindings, iter, made, reader, pending, sample>>
          ELSE /\ entries' = [entries EXCEPT ![slot] = newEntry]
               /\ heap' = cleanupNodeMapEntry(
                             [heap EXCEPT ![newEntry].nodeIdHash = heap[oldEntry].nodeIdHash,
                                          ![oldEntry].deleted = TRUE], oldEntry)
               /\ copies' = markCopies(copies, heap, nodeid, newEntry, "replaced")
               /\ bindings' = with(bindings, nodeid, newEntry)
               /\ last' = [op |-> "replace", id |-> nodeid, status |-> Good]
               /\ UNCHANGED <<size, count, sizePrimeIndex, borrowed, iter, made, reader, pending, sample>>

\* the for loop of UA_NodeMap_iterate: the first index from i on that holds an entry,
\* or sz when there is none
nextOccupied(ents, sz, i) ==
    LET occ == {j \in i..(sz - 1) : ents[j] > UA_NODEMAP_TOMBSTONE}
    IN IF occ = {} THEN sz ELSE CHOOSE j \in occ : \A k \in occ : j <= k

\* the entries in the slots of the table
inTable == {entries[j] : j \in {i \in 0..(size - 1) : entries[i] > UA_NODEMAP_TOMBSTONE}}

\* UA_NodeMap_iterate from loop index i with the entries mem: up to the call of the
\* visitor on the next entry (pinned), or to the end of the loop.  iter.start are the
\* entries that were in the table when the pass began, iter.seen the entries the
\* visitor was called with so far
iterateFrom(mem, i) ==
    LET j == nextOccupied(entries, size, i)
    IN IF j >= size
       THEN /\ heap' = mem
            /\ iter' = iterIdle
            /\ last' = [op |-> "iterate", id |-> 0, status |-> Good]
       ELSE /\ heap' = [mem EXCEPT ![entries[j]].refCount = (@ + 1) % RefCountMod]
            /\ iter' = [active |-> TRUE, i |-> j, cur |-> entries[j],
                        start |-> IF iter.active THEN iter.start ELSE inTable,
                        seen |-> (IF iter.active THEN iter.seen ELSE {}) \cup {entries[j]}]
            /\ last' = [op |-> "visit", id |-> mem[entries[j]].nodeId, status |-> Good]

\* UA_NodeMap_iterate is called
IterateBegin ==
    /\ ~iter.active
    /\ iterateFrom(heap, 0)
    /\ UNCHANGED <<store, borrowed, copies, bindings, made, reader, pending, sample>>

\* the visitor returns: unpin the entry, clean it up, go on with the loop
IterateNext ==
    /\ iter.active
    /\ iterateFrom(cleanupNodeMapEntry(
                      [heap EXCEPT ![iter.cur].refCount = (@ - 1) % RefCountMod],
                      iter.cur),
                   iter.i + 1)
    /\ UNCHANGED <<store, borrowed, copies, bindings, made, reader, pending, sample>>

-----------------------------------------------------------------------------
(* findOccupiedSlot read from an interrupt or another thread: "the nodestore allows
   read-access from an interrupt".  Every read of shared memory is a step of its
   own; the writer's interface functions run between them *)

\* findOccupiedSlot is called: h, size, idx, hash2 and startIdx are computed
ReaderStart(nodeid) ==
    /\ reader.pc = "idle"
    /\ reader' = [pc |-> "load", nodeid |-> nodeid,
                  idx |-> mod(UA_NodeId_hash(nodeid), size),
                  startIdx |-> mod(UA_NodeId_hash(nodeid), size),
                  entry |-> NULL, freed |-> FALSE]
    /\ UNCHANGED <<store, heap, borrowed, copies, bindings, iter, made, pending, sample, last>>

\* the end of the loop body after the slot at reader.idx did not match: idx += hash2,
\* wrap, and leave the loop with NULL when idx is startIdx again
readerAdvance ==
    LET nxt == probeNext(reader.idx, mod2(UA_NodeId_hash(reader.nodeid), size), size)
    IN IF nxt = reader.startIdx
       THEN [reader EXCEPT !.pc = "idle", !.entry = NULL]
       ELSE [reader EXCEPT !.pc = "load", !.idx = nxt, !.entry = NULL]

\* entry = ns->entries[idx]: one read of the slot
ReaderLoad ==
    /\ reader.pc = "load"
    /\ reader' = IF entries[reader.idx] > UA_NODEMAP_TOMBSTONE
                 THEN [reader EXCEPT !.pc = "compare", !.entry = entries[reader.idx]]
                 ELSE IF entries[reader.idx] = NULL
                 THEN [reader EXCEPT !.pc = "idle", !.entry = NULL]
                 ELSE readerAdvance
    /\ UNCHANGED <<store, heap, borrowed, copies, bindings, iter, made, pending, sample, last>>

\* entry->nodeIdHash == h && UA_NodeId_equal(&entry->node.nodeId, nodeid): reads of
\* the entry's fields.  When the block was freed since the slot was read, the reads
\* are of freed memory and the comparison can come out either way (equal)
ReaderCompare(equal) ==
    /\ reader.pc = "compare"
    /\ IF reader.entry \in DOMAIN heap
       THEN /\ equal = (/\ heap[reader.entry].nodeIdHash = UA_NodeId_hash(reader.nodeid)
                        /\ heap[reader.entry].nodeId = reader.nodeid)
            /\ reader' = IF equal THEN [reader EXCEPT !.pc = "idle"] ELSE readerAdvance
       ELSE reader' = IF equal THEN [reader EXCEPT !.pc = "idle", !.freed = TRUE]
                      ELSE [readerAdvance EXCEPT !.freed = TRUE]
    /\ UNCHANGED <<store, heap, borrowed, copies, bindings, iter, made, pending, sample, last>>

-----------------------------------------------------------------------------
(* UA_NodeMap_insertNode while another writer is not kept out by the lock: the read
   of the slot and the compare-and-swap are steps of their own, and the other
   writer's interface functions run between them.  addedNodeId is NULL *)

\* insertNode up to newEntry->nodeIdHash = ...: the resize, the slot, the hash
InsertBegin(nodeid, node, allocOk) ==
    LET mem0 == store_block(heap, node, [createEntry EXCEPT !.nodeId = nodeid])
        ex == IF size * 3 <= count * 4
              THEN expand(theTable, count, mem0, allocOk)
              ELSE [status |-> Good, tbl |-> theTable]
        ch == chooseSlot(ex.tbl, count, mem0, nodeid)
        mem1 == [mem0 EXCEPT ![node].nodeId = ch.numeric]
    IN /\ pending.pc = "idle"
       /\ node \in AllocAddrs
       /\ made' = made + 1
       /\ IF ex.status # Good
          THEN /\ heap' = mem0
               /\ last' = [op |-> "insert_raced", id |-> nodeid, status |-> BadInternalError]
               /\ UNCHANGED <<store, pending>>
          ELSE IF ch.slot = NoSlot
          THEN /\ setTable(ex.tbl)
               /\ heap' = deleteNodeMapEntry(mem1, node)
               /\ last' = [op |-> "insert_raced", id |-> ch.numeric,
                           status |-> BadNodeIdExists]
               /\ UNCHANGED <<count, pending>>
          ELSE /\ setTable(ex.tbl)
               /\ heap' = [mem1 EXCEPT ![node].nodeIdHash = UA_NodeId_hash(ch.numeric)]
               /\ pending' = [pc |-> "read", node |-> node, slot |-> ch.slot,
                              free |-> ex.tbl.entries[ch.slot], oldEntry |-> NULL]
               /\ UNCHANGED <<count, last>>
       /\ UNCHANGED <<borrowed, copies, bindings, iter, reader, sample>>

\* oldEntry = *slot
InsertRead ==
    /\ pending.pc = "read"
    /\ pending' = [pending EXCEPT !.pc = "cas", !.oldEntry = entries[pending.slot]]
    /\ UNCHANGED <<store, heap, borrowed, copies, bindings, iter, made, reader, sample, last>>

\* the compare-and-swap of the slot from oldEntry to newEntry, and what follows it
InsertCas ==
    /\ pending.pc = "cas"
    /\ IF entries[pending.slot] # pending.oldEntry
       THEN /\ heap' = deleteNodeMapEntry(heap, pending.node)
            /\ last' = [op |-> "insert_raced", id |-> heap[pending.node].nodeId,
                        status |-> BadNodeIdExists]
            /\ UNCHANGED <<store, bindings>>
       ELSE /\ entries' = [entries EXCEPT ![pending.slot] = pending.node]
            /\ count' = count + 1
            /\ bindings' = with(bindings, heap[pending.node].nodeId, pending.node)
            /\ last' = [op |-> "insert_raced", id |-> heap[pending.node].nodeId,
                        status |-> Good]
            /\ UNCHANGED <<size, sizePrimeIndex, heap>>
    /\ pending' = pendingIdle
    /\ UNCHANGED <<borrowed, copies, iter, made, reader, sample>>

-----------------------------------------------------------------------------
(* monitoredItem_sampleCallback of a data-change MonitoredItem on the node nodeid.
   UA_NODESTORE_GET and UA_NODESTORE_RELEASE are the nodestore's getNode and
   releaseNode.  The sampled value either owns its data (UA_VARIANT_DATA) or points
   into the node (UA_VARIANT_DATA_NODELETE).  sample.stale records a use of a value
   that points into a node already released by this callback or no longer allocated *)

\* a use of the sampled value with the entries mem
sampleUse(mem) ==
    \/ sample.stale
    \/ /\ sample.storageType = "NODELETE"
       /\ sample.node # NULL
       /\ (sample.releases > 0 \/ sample.node \notin DOMAIN mem)

\* the service mutex is free: no sample callback runs, or it is in the local callback
mutexFree == sample.pc \in {"idle", "called"}

\* the get of the node and the sampling of the value; sub says whether the
\* MonitoredItem is attached to a subscription, storageType is what ReadWithNode
\* returns
SampleBegin(nodeid, sub, storageType) ==
    LET slot == findOccupiedSlot(entries, size, heap, nodeid)
        node == IF slot = NoSlot THEN NULL ELSE entries[slot]
    IN /\ sample.pc = "idle"
       /\ IF node = NULL
          THEN /\ storageType = "DATA"
               /\ UNCHANGED <<heap, borrowed>>
          ELSE /\ heap' = [heap EXCEPT ![node].refCount = (@ + 1) % RefCountMod]
               /\ borrowed' = addBorrow(node)
       /\ sample' = [pc |-> "detect", nodeid |-> nodeid, sub |-> sub, node |-> node,
                     storageType |-> storageType, movedValue |-> FALSE,
                     retval |-> Good, gets |-> IF node = NULL THEN 0 ELSE 1,
                     releases |-> 0, queued |-> FALSE, called |-> FALSE,
                     stale |-> FALSE]
       /\ UNCHANGED <<store, copies, bindings, iter, made, reader, pending, last>>

\* sampleCallbackWithValue up to the test of changed: detectValueChange encodes the
\* value and compares it; ok says whether it succeeds
SampleDetect(ok, changed) ==
    /\ sample.pc = "detect"
    /\ sample' = [sample EXCEPT
                    !.stale = sampleUse(heap),
                    !.retval = IF ok THEN Good ELSE BadOutOfMemory,
                    !.pc = IF ~ok \/ ~changed THEN "finish"
                           ELSE IF sample.sub THEN "notify" ELSE "store"]
    /\ UNCHANGED <<store, heap, borrowed, copies, bindings, iter, made, reader, pending,
                   last>>

\* if(sub): the notification is allocated, gets the value (moved, or copied when the
\* value points into the node) and is enqueued
SampleNotify(allocOk, copyOk) ==
    /\ sample.pc = "notify"
    /\ sample' =
          IF ~allocOk
          THEN [sample EXCEPT !.retval = BadOutOfMemory, !.pc = "finish"]
          ELSE IF sample.storageType = "DATA"
          THEN [sample EXCEPT !.movedValue = TRUE, !.queued = TRUE, !.pc = "store"]
          ELSE IF ~copyOk
          THEN [sample EXCEPT !.stale = sampleUse(heap), !.retval = BadOutOfMemory,
                              !.pc = "finish"]
          ELSE [sample EXCEPT !.stale = sampleUse(heap), !.queued = TRUE,
                              !.pc = "store"]
    /\ UNCHANGED <<store, heap, borrowed, copies, bindings, iter, made, reader, pending,
                   last>>

\* the encoding and a copy of the value are stored in the MonitoredItem; without a
\* subscription the mutex is released and the local callback is called with the value
\* (getNodeContext before it, whose code is elsewhere, is taken to leave the store and
\* the node's references as they are)
SampleStore ==
    /\ sample.pc = "store"
    /\ sample' = [sample EXCEPT
                    !.stale = sampleUse(heap),
                    !.called = ~sample.sub,
                    !.pc = IF sample.sub THEN "finish" ELSE "called"]
    /\ UNCHANGED <<store, heap, borrowed, copies, bindings, iter, made, reader, pending,
                   last>>

\* the local callback, which has the value until it returns, returns; the mutex is
\* taken again
SampleReturn ==
    /\ sample.pc = "called"
    /\ sample' = [sample EXCEPT !.stale = sampleUse(heap), !.pc = "finish"]
    /\ UNCHANGED <<store, heap, borrowed, copies, bindings, iter, made, reader, pending,
                   last>>

\* the end of monitoredItem_sampleCallback, but without the release of the node
SampleFinishWithoutRelease ==
    /\ sample.pc = "finish"
    /\ sample' = [sample EXCEPT !.pc = "idle"]
    /\ UNCHANGED <<store, heap, borrowed, copies, bindings, iter, made, reader, pending,
                   last>>

\* the end of monitoredItem_sampleCallback: the value is cleared if it was not moved
\* (nothing is done to a value that points into the node), the node is released
SampleFinish ==
    /\ sample.pc = "finish"
    /\ IF sample.node # NULL
       THEN /\ heap' = cleanupNodeMapEntry(
                          [heap EXCEPT ![sample.node].refCount = (@ - 1) % RefCountMod],
                          sample.node)
            /\ borrowed' = dropBorrow(sample.node)
            /\ sample' = [sample EXCEPT !.releases = @ + 1, !.pc = "idle"]
       ELSE /\ sample' = [sample EXCEPT !.pc = "idle"]
            /\ UNCHANGED <<heap, borrowed>>
    /\ UNCHANGED <<store, copies, bindings, iter, made, reader, pending, last>>

\* a step of the running sample callback
SampleStep ==
    \/ \E ok \in BOOLEAN, changed \in BOOLEAN : SampleDetect(ok, changed)
    \/ \E allocOk \in BOOLEAN, copyOk \in BOOLEAN : SampleNotify(allocOk, copyOk)
    \/ SampleStore
    \/ SampleReturn
    \/ SampleFinish

-----------------------------------------------------------------------------
(* The store and one caller (the visitor of a running iterate is that caller too) *)

\* the NodeIds the caller asks for: those of K and those the store has assigned
Ids(K) == K \cup DOMAIN bindings

Next ==
    \/ \E k \in Ids(Keys) : TotalBorrows < MaxBorrow /\ GetNode(k)
    \/ \E a \in DOMAIN borrowed : ReleaseNode(a)
    \/ \E k \in Ids(Keys), a \in AllocAddrs, ok \in BOOLEAN :
          Cardinality(DOMAIN copies) < MaxCopies /\ made < MaxNodes /\ GetNodeCopy(k, a, ok)
    \/ \E c \in DOMAIN copies, v \in 0..MaxVal : EditCopy(c, v)
    \/ \E c \in DOMAIN copies : DeleteNode(c)
    \/ \E c \in DOMAIN copies : ReplaceNode(c)
    \/ \E k \in Ids(Keys), ok \in BOOLEAN : RemoveNode(k, ok)
    \/ \E k \in Keys, a \in AllocAddrs, ok1 \in BOOLEAN, ok2 \in BOOLEAN :
          made < MaxNodes /\ InsertNode(k, a, ok1, ok2)
    \/ IterateBegin
    \/ IterateNext

Spec == Init /\ [][Next]_vars

\* callers that copy one node, edit the copies and replace the node with them
NextCopy ==
    \/ \E k \in CopyKeys, a \in AllocAddrs :
          made < CopyNodes /\ InsertNode(k, a, TRUE, TRUE)
    \/ \E k \in CopyKeys, a \in AllocAddrs :
          /\ Cardinality(DOMAIN copies) < CopyCopies
          /\ made < CopyNodes
          /\ GetNodeCopy(k, a, TRUE)
    \/ \E c \in DOMAIN copies, v \in 0..MaxVal : EditCopy(c, v)
    \/ \E c \in DOMAIN copies : ReplaceNode(c)
    \/ \E k \in CopyKeys : RemoveNode(k, TRUE)
    \/ \E k \in CopyKeys : TotalBorrows < CopyBorrows /\ GetNode(k)
    \/ \E a \in DOMAIN borrowed : ReleaseNode(a)

SpecCopy == Init /\ [][NextCopy]_vars

\* inserts and removes of a handful of NodeIds: tombstones, a shrink, a grow.
\* The caller inserts NodeIds that are present and NodeIds above all that are
\* present, and removes the NodeIds that are present; a shrink gets its memory, the
\* resize before an insert may not
NextTable ==
    \/ \E k \in TableKeys, a \in AllocAddrs, ok \in BOOLEAN :
          /\ made < TableNodes
          /\ k \in DOMAIN bindings \/ \A p \in DOMAIN bindings : p < k
          /\ InsertNode(k, a, ok, TRUE)
    \/ \E k \in DOMAIN bindings : RemoveNode(k, TRUE)

SpecTable == Init /\ [][NextTable]_vars

\* a caller that fills a table to three quarters and then inserts, removes, or copies
\* and replaces a node; it removes the only node of a table too (which shrinks it)
NextLoad ==
    \/ \E k \in LoadKeys, a \in AllocAddrs, ok \in BOOLEAN :
          /\ made < LoadNodes
          /\ k \in DOMAIN bindings \/ \A p \in DOMAIN bindings : p < k
          /\ InsertNode(k, a, ok, TRUE)
    \/ \E k \in DOMAIN bindings :
          (count = 1 \/ size * 3 <= count * 4) /\ RemoveNode(k, TRUE)
    \/ \E k \in DOMAIN bindings, a \in AllocAddrs :
          /\ size * 3 <= count * 4
          /\ copies = <<>>
          /\ made < LoadNodes
          /\ GetNodeCopy(k, a, TRUE)
    \/ \E c \in DOMAIN copies : ReplaceNode(c)

SpecLoad == Init /\ [][NextLoad]_vars

\* a caller that inserts nodes with the NodeIds 1, 2, 3, ... in this order; it
\* removes the only node of a table, and when it has made all its nodes it removes
\* them, the one with the lowest NodeId first
NextShrink ==
    \/ \E a \in AllocAddrs : made < ShrinkNodes /\ InsertNode(made + 1, a, TRUE, TRUE)
    \/ \E k \in DOMAIN bindings :
          /\ count = 1 \/ made = ShrinkNodes
          /\ \A p \in DOMAIN bindings : k <= p
          /\ RemoveNode(k, TRUE)

SpecShrink == Init /\ [][NextShrink]_vars

\* a caller that iterates over the table with a visitor that inserts nodes with
\* NodeIds that are not present; outside a pass the caller inserts too and removes the
\* only node of a table
NextIterate ==
    \/ \E k \in LoadKeys \ DOMAIN bindings, a \in AllocAddrs :
          /\ made < IterateNodes
          /\ \A p \in DOMAIN bindings : p < k
          /\ InsertNode(k, a, TRUE, TRUE)
    \/ \E k \in DOMAIN bindings : ~iter.active /\ count = 1 /\ RemoveNode(k, TRUE)
    \/ IterateBegin
    \/ IterateNext

SpecIterate == Init /\ [][NextIterate]_vars

\* one writer that inserts, copies, replaces and removes nodes and never resizes
\* the table (few nodes in 127 slots; the shrink after a remove gets no memory),
\* and lookups that run asynchronously to it
NextReader ==
    \/ \E k \in Keys, a \in AllocAddrs : made < ReaderNodes /\ InsertNode(k, a, TRUE, TRUE)
    \/ \E k \in DOMAIN bindings, a \in AllocAddrs :
          copies = <<>> /\ made < ReaderNodes /\ GetNodeCopy(k, a, TRUE)
    \/ \E c \in DOMAIN copies : ReplaceNode(c)
    \/ \E k \in DOMAIN bindings : RemoveNode(k, FALSE)
    \/ \E k \in Keys : ReaderStart(k)
    \/ ReaderLoad
    \/ \E equal \in BOOLEAN : ReaderCompare(equal)

SpecReader == Init /\ [][NextReader]_vars

\* a caller that inserts nodes with identifier 0 and one with an identifier of its own
NextIds ==
    \/ \E k \in IdKeys \cup {0}, a \in AllocAddrs, ok \in BOOLEAN :
          made < IdNodes /\ InsertNode(k, a, TRUE, ok)
    \/ \E k \in Ids(IdKeys), ok \in BOOLEAN : RemoveNode(k, ok)

SpecIds == Init /\ [][NextIds]_vars

\* the table size at which the node with identifier 0 is inserted in SpecZeroId
zeroIdSize == primes[higher_prime_index(2 * (ZeroIdCount - 1)) + 1]

\* the NodeId of the n-th node (from 0) that the caller of SpecZeroId inserts, prev
\* being the NodeId it inserted before: first the identifiers that insertNode tries
\* one after the other in a table of zeroIdSize slots holding ZeroIdCount nodes,
\* then others, and last the identifier 0
zeroIdScenario(n, prev) ==
    IF n = 0 THEN StartId + zeroIdSize + 1
    ELSE IF n < ZeroIdTries
    THEN IF prev + mod2(ZeroIdCount + 1, zeroIdSize) >= zeroIdSize
         THEN prev + mod2(ZeroIdCount + 1, zeroIdSize) - zeroIdSize
         ELSE prev + mod2(ZeroIdCount + 1, zeroIdSize)
    ELSE IF n < ZeroIdCount THEN n - ZeroIdTries + 1
    ELSE 0

\* a caller that fills the store with nodes of its own identifiers and then inserts
\* a node with identifier 0
NextZeroId ==
    \E a \in AllocAddrs :
        made <= ZeroIdCount /\ InsertNode(zeroIdScenario(made, last.id), a, TRUE, TRUE)

SpecZeroId == Init /\ [][NextZeroId]_vars

\* one node that many callers get before anybody releases, and its removal
NextManyBorrows ==
    \/ \E a \in AllocAddrs : made < 1 /\ InsertNode(2, a, TRUE, TRUE)
    \/ TotalBorrows < ManyBorrows /\ GetNode(2)
    \/ RemoveNode(2, TRUE)

SpecManyBorrows == Init /\ [][NextManyBorrows]_vars

\* a writer whose insert is raced by another writer's inserts and removes; the table
\* is never resized (few nodes in 127 slots; the shrink after a remove gets no memory)
NextRace ==
    \/ \E k \in Keys, a \in AllocAddrs : made < RaceNodes /\ InsertBegin(k, a, TRUE)
    \/ InsertRead
    \/ InsertCas
    \/ \E k \in Keys, a \in AllocAddrs : made < RaceNodes /\ InsertNode(k, a, TRUE, TRUE)
    \/ \E k \in Keys : RemoveNode(k, FALSE)

SpecRace == Init /\ [][NextRace]_vars

\* sample callbacks of MonitoredItems on the nodes of the store; nodes are inserted
\* and removed while the service mutex is free, that is between sample callbacks and
\* while a local callback runs.  A sample callback that has begun goes on: the
\* functions it calls return and so does the local callback
NextSample ==
    \/ \E k \in Keys, sub \in BOOLEAN, st \in {"DATA", "NODELETE"} : SampleBegin(k, sub, st)
    \/ SampleStep
    \/ \E k \in Keys, a \in AllocAddrs :
          mutexFree /\ made < SampleNodes /\ InsertNode(k, a, TRUE, TRUE)
    \/ \E k \in Keys : mutexFree /\ RemoveNode(k, TRUE)

SpecSample == Init /\ [][NextSample]_vars /\ WF_vars(SampleStep)

\* one node that many callers get before anybody releases; when about as many hold
\* it as refCount can count, one of them releases it, or copies and replaces it
NextManyHolders ==
    \/ \E a \in AllocAddrs : made < 1 /\ InsertNode(2, a, TRUE, TRUE)
    \/ TotalBorrows < ManyBorrows /\ made < 2 /\ GetNode(2)
    \/ \E a \in DOMAIN borrowed \cap DOMAIN heap :
          TotalBorrows = ManyBorrows /\ ReleaseNode(a)
    \/ \E a \in AllocAddrs :
          /\ TotalBorrows >= ManyBorrows - 1
          /\ copies = <<>>
          /\ made < 2
          /\ GetNodeCopy(2, a, TRUE)
    \/ \E c \in DOMAIN copies : ReplaceNode(c)

SpecManyHolders == Init /\ [][NextManyHolders]_vars

-----------------------------------------------------------------------------
(* Borrowed nodes *)

\* the entries the caller holds: results of get not yet released and the entry a
\* running iterate has pinned for its visitor
Held == DOMAIN borrowed \cup (IF iter.active THEN {iter.cur} ELSE {})

\* how many references the caller holds on entry a
Pins(a) == Borrows(a) + (IF iter.active /\ iter.cur = a THEN 1 ELSE 0)

\* every held entry is allocated, and an entry marked deleted is allocated only
\* while somebody holds it
HeldAlive ==
    /\ Held \subseteq DOMAIN heap
    /\ \A a \in DOMAIN heap \ DOMAIN copies : heap[a].deleted => a \in Held

\* C1: a node obtained by get, or pinned by iterate for its visitor, stays allocated
\* with the same NodeId and contents over every step up to its release, whatever
\* remove, replace, insert or resize the step is; an entry removed or superseded
\* while held is freed at the release of its last holder and not before
C1_BorrowedNodesStayValid ==
    [][/\ HeldAlive'
       /\ \A a \in Held :
             Pins(a)' > 0 =>
                /\ a \in DOMAIN heap'
                /\ heap'[a].nodeId = heap[a].nodeId
                /\ heap'[a].val = heap[a].val
       /\ \A a \in DOMAIN heap \ DOMAIN heap' :
             a \in Held => /\ heap[a].deleted
                           /\ Pins(a) = 1
                           /\ last'.op \in {"release", "visit", "iterate"}]_vars

\* an entry removed while borrowed, still allocated, in a table that was resized since
C1_Witness ==
    \E a \in DOMAIN borrowed :
        /\ a \in DOMAIN heap
        /\ heap[a].deleted
        /\ heap[a].nodeId \notin DOMAIN bindings
        /\ size # primes[higher_prime_index(UA_NODEMAP_MINSIZE) + 1]

-----------------------------------------------------------------------------
(* The slot table *)

\* the indices of the occupied slots
Occupied == {i \in 0..(size - 1) : entries[i] > UA_NODEMAP_TOMBSTONE}

Tombstones == {i \in 0..(size - 1) : entries[i] = UA_NODEMAP_TOMBSTONE}

\* the NodeIds of the entries in the occupied slots
PresentIds == {heap[entries[i]].nodeId : i \in Occupied}

\* C2: count is the number of occupied slots and the number of distinct NodeIds
\* present (no two occupied slots hold equal NodeIds, tombstones are not counted);
\* these NodeIds are the ones inserted and not removed since
C2_CountIsOccupiedSlots ==
    /\ count = Cardinality(Occupied)
    /\ count = Cardinality(PresentIds)
    /\ PresentIds = DOMAIN bindings

\* a table that was shrunk to 7 slots and grown to 13, holding nodes and a tombstone
C2_Witness ==
    /\ size = primes[2]
    /\ count >= 5
    /\ Tombstones # {}

\* the n-th slot index of the probe sequence of hash h in a table of sz slots
ProbeIndex(h, sz, n) == (mod(h, sz) + n * mod2(h, sz)) % sz

\* C3: for every NodeId present, the probe sequence from h mod size with step
\* 1 + (h mod (size - 2)) comes to the slot of that NodeId before it comes to an
\* empty slot, and findOccupiedSlot returns that slot
C3_ProbeReachesPresentKeys ==
    \A k \in DOMAIN bindings :
        LET h == UA_NodeId_hash(k)
        IN /\ \E n \in 0..(size - 1) :
                 /\ entries[ProbeIndex(h, size, n)] = bindings[k]
                 /\ \A m \in 0..(n - 1) : entries[ProbeIndex(h, size, m)] # NULL
           /\ findOccupiedSlot(entries, size, heap, k) # NoSlot
           /\ entries[findOccupiedSlot(entries, size, heap, k)] = bindings[k]

\* a NodeId whose probe sequence passes a tombstone before it comes to its slot, in
\* a table that was resized
C3_Witness ==
    /\ size # primes[higher_prime_index(UA_NODEMAP_MINSIZE) + 1]
    /\ \E k \in DOMAIN bindings :
          \E n \in 1..(size - 1) :
             /\ entries[ProbeIndex(UA_NodeId_hash(k), size, n)] = bindings[k]
             /\ \E m \in 0..(n - 1) :
                   entries[ProbeIndex(UA_NodeId_hash(k), size, m)] = UA_NODEMAP_TOMBSTONE

-----------------------------------------------------------------------------
(* get *)

\* C4: get of a NodeId that was inserted and not removed returns the entry that the
\* last successful insert or replace published for it, whose NodeId is the one asked
\* for, and adds one to that entry's refCount (in 16 bits) without changing a slot or
\* count; get of a NodeId that is not present returns nothing and changes nothing
C4_GetReturnsPresentNode ==
    [][last'.op = "get" =>
         IF last'.id \in DOMAIN bindings
         THEN LET entry == bindings[last'.id]
              IN /\ last'.status = Good
                 /\ \A a \in DOMAIN heap :
                       Borrows(a)' = Borrows(a) + (IF a = entry THEN 1 ELSE 0)
                 /\ heap[entry].nodeId = last'.id
                 /\ heap' = [heap EXCEPT ![entry].refCount =
                                             (heap[entry].refCount + 1) % RefCountMod]
                 /\ UNCHANGED <<entries, size, count, sizePrimeIndex, bindings, copies>>
         ELSE /\ last'.status = BadNodeIdUnknown
              /\ UNCHANGED <<entries, size, count, sizePrimeIndex, heap, borrowed,
                             bindings, copies>>]_vars

\* get has just returned the version of a node that a replace published, while the
\* other NodeId with the same hash is present too
C4_Witness ==
    /\ last.op = "get"
    /\ last.status = Good
    /\ last.id \in DOMAIN bindings
    /\ bindings[last.id] \in DOMAIN borrowed
    /\ heap[bindings[last.id]].orig # NULL
    /\ count > 1

-----------------------------------------------------------------------------
(* replace *)

\* the copy that the replace of this step was called with
Consumed == DOMAIN copies \ DOMAIN copies'

\* C5: when another replace of the NodeId has succeeded since get_copy made the copy
\* (and the NodeId was not removed), replace of the copy fails with Internal, leaves
\* the table and the entry the other replace installed as they are, and the copy is
\* reclaimed
C5_StaleReplaceFails ==
    [][last'.op = "replace" =>
         \A c \in Consumed :
            copies[c].replaced /\ ~copies[c].removed =>
               /\ last'.status = BadInternalError
               /\ UNCHANGED <<entries, size, count, sizePrimeIndex, bindings>>
               /\ c \notin DOMAIN heap']_vars

\* replace has just refused a copy that another replace had made stale
C5_Witness ==
    /\ last.op = "replace"
    /\ last.status = BadInternalError
    /\ last.id \in DOMAIN bindings
    /\ heap[bindings[last.id]].orig # NULL

\* C6 as stated: when remove of the NodeId has succeeded since get_copy made the
\* copy, replace of the copy returns Internal and the NodeId is not in the table
C6_ReplaceAfterRemoveIsInternal ==
    [][last'.op = "replace" =>
         \A c \in Consumed :
            copies[c].removed =>
               /\ last'.status = BadInternalError
               /\ last'.id \notin DOMAIN bindings']_vars

\* C6 amended: when remove of the NodeId has succeeded since get_copy made the copy
\* and the NodeId is not in the table when replace is called, replace returns
\* NodeIdUnknown, reclaims the copy and changes nothing else; the NodeId is still
\* not in the table, so get returns nothing for it
C6_ReplaceAfterRemoveIsUnknown ==
    [][last'.op = "replace" =>
         \A c \in Consumed :
            copies[c].removed /\ heap[c].nodeId \notin DOMAIN bindings =>
               /\ last'.status = BadNodeIdUnknown
               /\ last'.id = heap[c].nodeId
               /\ heap' = [a \in DOMAIN heap \ {c} |-> heap[a]]
               /\ UNCHANGED <<entries, size, count, sizePrimeIndex, bindings, borrowed>>
               /\ findOccupiedSlot(entries', size', heap', last'.id) = NoSlot]_vars

\* replace has just returned NodeIdUnknown for a copy of a node removed meanwhile
C6_Witness ==
    /\ last.op = "replace"
    /\ last.status = BadNodeIdUnknown
    /\ last.id \notin DOMAIN bindings
    /\ findOccupiedSlot(entries, size, heap, last.id) = NoSlot

-----------------------------------------------------------------------------
(* insert *)

\* the node that the insert of this step was called with, if it is still allocated
Supplied == DOMAIN heap' \ DOMAIN heap

\* the entries in the slots after the step
Published == {entries'[i] : i \in 0..(size' - 1)}

\* C7: whatever status insert returns, the node it was called with is published in
\* the table (on success) or reclaimed; it is never left allocated and unpublished
C7_InsertConsumesNode ==
    [][last'.op \in {"insert", "insert0"} =>
         \A node \in Supplied : last'.status = Good /\ node \in Published]_vars

\* insert has just failed with Internal and the node it was called with is still
\* allocated: in no slot, no copy of a caller, not deleted
C7_Witness ==
    /\ last.op = "insert"
    /\ last.status = BadInternalError
    /\ \E node \in DOMAIN heap \ DOMAIN copies :
          /\ \A i \in 0..(size - 1) : entries[i] # node
          /\ ~heap[node].deleted

\* C10 as stated: insert of a node whose NodeId (not 0) is present fails with
\* NodeIdExists, reclaims the node and leaves count and the entry of every NodeId
\* as they are
C10_InsertPresentIsNodeIdExists ==
    [][last'.op = "insert" /\ last'.id \in DOMAIN bindings =>
         /\ last'.status = BadNodeIdExists
         /\ Supplied = {}
         /\ UNCHANGED <<count, bindings>>]_vars

\* C10 amended: insert of a node whose NodeId (not 0) is present leaves count and the
\* entry of every NodeId as they are, and get still finds the entry that was there.
\* It fails with NodeIdExists and the node is reclaimed, unless the table is due for
\* a resize (size * 3 <= count * 4) whose allocation fails: then insert fails with
\* Internal and the table is unchanged
C10_InsertPresentFails ==
    [][last'.op = "insert" /\ last'.id \in DOMAIN bindings =>
         /\ UNCHANGED <<count, bindings>>
         /\ DOMAIN heap \subseteq DOMAIN heap'
         /\ \A a \in DOMAIN heap : heap'[a] = heap[a]
         /\ \A k \in DOMAIN bindings :
               /\ findOccupiedSlot(entries', size', heap', k) # NoSlot
               /\ entries'[findOccupiedSlot(entries', size', heap', k)] = bindings[k]
         /\ \/ /\ last'.status = BadNodeIdExists
               /\ Supplied = {}
            \/ /\ last'.status = BadInternalError
               /\ size * 3 <= count * 4
               /\ UNCHANGED <<entries, size, sizePrimeIndex>>]_vars

\* insert of a present NodeId has just failed with NodeIdExists after the table
\* grew to 13 slots in that call
C10_Witness ==
    /\ last.op = "insert"
    /\ last.status = BadNodeIdExists
    /\ last.id \in DOMAIN bindings
    /\ size = primes[2]
    /\ count * 4 >= primes[1] * 3
    /\ Tombstones = {}

\* C8: insert of a node with numeric identifier 0 that succeeds gives the node an
\* identifier that is not 0 and that no node present had, and the node is in the
\* table under that identifier afterwards, where get finds it
C8_AssignedIdIsFreshAndNonzero ==
    [][last'.op = "insert0" /\ last'.status = Good =>
         /\ last'.id # 0
         /\ last'.id \notin DOMAIN bindings
         /\ last'.id \in DOMAIN bindings'
         /\ heap'[bindings'[last'.id]].nodeId = last'.id
         /\ findOccupiedSlot(entries', size', heap', last'.id) # NoSlot
         /\ entries'[findOccupiedSlot(entries', size', heap', last'.id)]
               = bindings'[last'.id]]_vars

\* insert of a node with identifier 0 has just succeeded in a store whose nodes
\* carry the identifiers insertNode tries first
C8_Witness ==
    /\ last.op = "insert0"
    /\ last.status = Good
    /\ count = ZeroIdCount + 1
    /\ size = zeroIdSize
    /\ StartId + zeroIdSize + 1 \in DOMAIN bindings

\* C9: every identifier the store assigns to a node inserted with numeric identifier
\* 0 is at least 50000
C9_AssignedIdAtLeastStart ==
    [][last'.op = "insert0" /\ last'.status = Good => last'.id >= StartId]_vars

\* insert of a node with identifier 0 has just succeeded after the first two
\* identifiers insertNode tried were present
C9_Witness ==
    /\ last.op = "insert0"
    /\ last.status = Good
    /\ count = 3
    /\ last.id \notin {StartId + size + 1, StartId + 1 + mod2(count, size)}
    /\ {StartId + size + 1, StartId + 1 + mod2(count, size)} \subseteq DOMAIN bindings

-----------------------------------------------------------------------------
(* remove *)

\* C11: remove of a NodeId that is present returns Good; afterwards the lookup of
\* that NodeId finds nothing, count is one less, and every other NodeId is found
\* in the table with the entry it had, the entry itself unchanged (also when the
\* call shrank the table).  remove of a NodeId that is not present returns
\* NodeIdUnknown and changes no slot, no count and no entry
C11_RemoveUnbindsOneNodeId ==
    [][last'.op = "remove" =>
         IF last'.id \in DOMAIN bindings
         THEN /\ last'.status = Good
              /\ findOccupiedSlot(entries', size', heap', last'.id) = NoSlot
              /\ count' = count - 1
              /\ DOMAIN bindings' = DOMAIN bindings \ {last'.id}
              /\ \A k \in DOMAIN bindings \ {last'.id} :
                    /\ findOccupiedSlot(entries', size', heap', k) # NoSlot
                    /\ entries'[findOccupiedSlot(entries', size', heap', k)]
                          = entries[findOccupiedSlot(entries, size, heap, k)]
                    /\ bindings'[k] = bindings[k]
                    /\ heap'[bindings[k]] = heap[bindings[k]]
         ELSE /\ last'.status = BadNodeIdUnknown
              /\ UNCHANGED <<entries, size, count, sizePrimeIndex, heap, bindings>>]_vars

\* remove has just succeeded and shrunk the table, in which the other NodeId with
\* the same hash is still present
C11_Witness ==
    /\ last.op = "remove"
    /\ last.status = Good
    /\ last.id \notin DOMAIN bindings
    /\ count = 1
    /\ size < primes[higher_prime_index(UA_NODEMAP_MINSIZE) + 1]
    /\ Tombstones = {}

-----------------------------------------------------------------------------
(* get_copy *)

\* C12: get_copy, a change the caller makes to a copy it holds, and delete_node of a
\* copy change no slot, no count and no field of any entry that is not one of the
\* caller's copies, and every NodeId present is still found at its entry with the
\* contents it had; the contents of a copy come into the table when replace of the
\* copy succeeds
C12_CopyIsPrivateUntilReplace ==
    [][/\ last'.op \in {"get_copy", "edit", "delete_node"} =>
             /\ UNCHANGED <<entries, size, count, sizePrimeIndex, bindings>>
             /\ \A a \in DOMAIN heap \ DOMAIN copies :
                   a \in DOMAIN heap' /\ heap'[a] = heap[a]
             /\ \A k \in DOMAIN bindings :
                   /\ findOccupiedSlot(entries', size', heap', k) # NoSlot
                   /\ entries'[findOccupiedSlot(entries', size', heap', k)] = bindings[k]
                   /\ heap'[bindings[k]].val = heap[bindings[k]].val
       /\ last'.op = "replace" /\ last'.status = Good =>
             \A c \in Consumed :
                /\ entries'[findOccupiedSlot(entries', size', heap', last'.id)] = c
                /\ heap'[c].val = heap[c].val]_vars

\* the caller has just changed a copy whose original is still the entry in the
\* table, so that copy and entry differ
C12_Witness ==
    /\ last.op = "edit"
    /\ \E c \in DOMAIN copies :
          /\ heap[c].nodeId \in DOMAIN bindings
          /\ heap[c].orig = bindings[heap[c].nodeId]
          /\ heap[c].val # heap[heap[c].orig].val

-----------------------------------------------------------------------------
(* The capacity of the table *)

\* the primes of the ladder
Ladder == {primes[i] : i \in 1..Len(primes)}

\* C13: in every state the capacity of the slot table is a prime of the ladder and
\* at least UA_NODEMAP_MINSIZE = 64, also after a remove has shrunk the table
C13_CapacityAtLeastMinimum ==
    /\ size \in Ladder
    /\ size = primes[sizePrimeIndex + 1]
    /\ DOMAIN entries = 0..(size - 1)
    /\ size >= UA_NODEMAP_MINSIZE

\* remove has just shrunk the table below the minimum size
C13_Witness ==
    /\ last.op = "remove"
    /\ last.status = Good
    /\ size \in Ladder
    /\ size < UA_NODEMAP_MINSIZE


\* C14 as stated: in a state with count * 4 >= size * 3 the next insert, replace or
\* remove resizes the table
C14_MutationResizesAtHighLoad ==
    [][count * 4 >= size * 3 /\ last'.op \in {"insert", "insert0", "replace", "remove"} =>
         size' # size]_vars

\* C14 amended: in a state with count * 4 >= size * 3 the next insert rebuilds the
\* table at the ladder prime for 2 * count, which is larger, before it looks for the
\* slot of the node, and every NodeId that was present is found in the new array;
\* when the allocation of the new array fails the insert fails with Internal and the
\* table is unchanged.  replace and remove in such a state do not resize
C14_InsertResizesAtHighLoad ==
    [][count * 4 >= size * 3 /\ last'.op \in {"insert", "insert0", "replace", "remove"} =>
         IF last'.op \in {"replace", "remove"}
         THEN size' = size /\ sizePrimeIndex' = sizePrimeIndex
         ELSE IF last'.status = BadInternalError
         THEN UNCHANGED <<entries, size, count, sizePrimeIndex>>
         ELSE /\ size' = primes[higher_prime_index(2 * count) + 1]
              /\ sizePrimeIndex' = higher_prime_index(2 * count)
              /\ size' > size
              /\ \A i \in 0..(size' - 1) : entries'[i] # UA_NODEMAP_TOMBSTONE
              /\ \A k \in DOMAIN bindings :
                    /\ findOccupiedSlot(entries', size', heap', k) # NoSlot
                    /\ entries'[findOccupiedSlot(entries', size', heap', k)]
                          = bindings[k]]_vars

\* insert has just grown a table of 7 slots holding 6 nodes to 13 slots and put the
\* seventh node into it
C14_Witness ==
    /\ last.op = "insert"
    /\ last.status = Good
    /\ size = primes[2]
    /\ count = 7
    /\ Tombstones = {}


\* C15: when a remove that succeeded leaves count * 8 < size in a table of more than
\* 32 slots, and the new array can be allocated, the table is rebuilt at a smaller
\* prime of the ladder before remove returns, and every NodeId that remains is
\* found at its entry
C15_RemoveShrinksBelowLowWater ==
    [][last'.op = "remove" /\ last'.status = Good /\ count' * 8 < size /\ size > ShrinkFloor =>
         /\ size' < size
         /\ size' \in Ladder
         /\ \A k \in DOMAIN bindings' :
               /\ findOccupiedSlot(entries', size', heap', k) # NoSlot
               /\ entries'[findOccupiedSlot(entries', size', heap', k)] = bindings'[k]]_vars

\* remove has just left fewer than an eighth of the 61 slots occupied
C15_Witness ==
    /\ last.op = "remove"
    /\ last.status = Good
    /\ size = primes[4]
    /\ count * 8 < size


\* the entry that the lookup of NodeId k finds in table tbl, or NULL
found(tbl, mem, k) ==
    IF findOccupiedSlot(tbl.entries, tbl.size, mem, k) = NoSlot THEN NULL
    ELSE tbl.entries[findOccupiedSlot(tbl.entries, tbl.size, mem, k)]

\* C16: a step that resizes the table (the grow before an insert, the shrink after a
\* remove) leaves an array without tombstones that holds exactly the entries of the
\* NodeIds present after the step, count of them; every NodeId present before and
\* after is found at the same entry as before, the entry unchanged; and after a
\* remove every NodeId resolves as it would had the table not been resized
C16_ResizeKeepsBindings ==
    [][size' # size =>
         /\ \A i \in 0..(size' - 1) : entries'[i] # UA_NODEMAP_TOMBSTONE
         /\ {entries'[i] : i \in {j \in 0..(size' - 1) : entries'[j] # NULL}}
               = {bindings'[k] : k \in DOMAIN bindings'}
         /\ count' = Cardinality(DOMAIN bindings')
         /\ count' = count + (IF last'.op = "remove" THEN -1
                              ELSE IF last'.status = Good THEN 1 ELSE 0)
         /\ \A k \in DOMAIN bindings \cap DOMAIN bindings' :
               /\ found(theTable, heap, k) = bindings[k]
               /\ found(theTable', heap', k) = bindings[k]
               /\ heap'[bindings[k]] = heap[bindings[k]]
         /\ last'.op = "remove" =>
               \A k \in DOMAIN bindings :
                  found(theTable', heap', k)
                     = found(clearSlot(theTable, count, heap,
                                       findOccupiedSlot(entries, size, heap, last'.id),
                                       FALSE).tbl,
                             heap', k)]_vars

\* a table of 7 slots with tombstones was rebuilt with 13 slots, or a table holding
\* several nodes was shrunk
C16_Witness ==
    /\ Tombstones = {}
    /\ \/ last.op = "insert" /\ size = primes[2] /\ count >= 6
       \/ last.op = "remove" /\ size < UA_NODEMAP_MINSIZE /\ count >= 2

-----------------------------------------------------------------------------
(* iterate *)

\* C17: in a pass of iterate whose visitor inserts nodes with other NodeIds, the
\* visitor is never called with an entry it was called with before in this pass, and
\* when the pass ends it has been called with every entry that was in the table when
\* the pass began, also when an insert of the visitor resized the table
C17_IterateVisitsEachEntryOnce ==
    [][/\ last'.op = "visit" /\ iter.active => iter'.cur \notin iter.seen
       /\ last'.op = "iterate" /\ iter.active => iter.start \subseteq iter.seen]_vars

\* the visitor of a running pass has just inserted a node, for which the table of 7
\* slots was rebuilt with 13
C17_Witness ==
    /\ iter.active
    /\ last.op = "insert"
    /\ last.status = Good
    /\ size = primes[2]
    /\ count = 7
    /\ Cardinality(iter.start) = 6

-----------------------------------------------------------------------------
(* Lookups outside the writer's lock *)

\* C18: a findOccupiedSlot that runs asynchronously while one writer inserts,
\* replaces and removes without resizing the array never reads a field of an entry
\* that has been freed, and every entry it reads from a slot has the hash of its
\* NodeId in nodeIdHash
C18_ReaderNeverReadsFreedEntry ==
    /\ ~reader.freed
    /\ reader.pc = "compare" /\ reader.entry \in DOMAIN heap /\ ~heap[reader.entry].deleted =>
          heap[reader.entry].nodeIdHash = UA_NodeId_hash(heap[reader.entry].nodeId)

\* the lookup has read the pointer of an entry from a slot, and the writer has
\* removed or replaced that entry and freed it before the lookup read its fields
C18_Witness ==
    /\ reader.pc = "compare"
    /\ reader.entry \notin DOMAIN heap
    /\ last.op \in {"remove", "replace"}
    /\ size = primes[higher_prime_index(UA_NODEMAP_MINSIZE) + 1]

-----------------------------------------------------------------------------
(* The states of a slot *)

\* the slots whose content the step changes in an array that is not resized
Changed == {i \in 0..(size - 1) : entries'[i] # entries[i]}

\* C19: in a step that does not resize the array, a successful insert changes one
\* slot, from empty or tombstone to the new entry; a successful remove changes one
\* slot, from an entry to tombstone; a successful replace changes one slot, from an
\* entry to another entry; no slot becomes empty; and get, release, get_copy and the
\* operations that fail change no slot
C19_SlotTransitions ==
    [][size' = size =>
         /\ DOMAIN entries' = DOMAIN entries
         /\ \A i \in Changed : entries'[i] # NULL
         /\ IF last'.op \in {"insert", "insert0"} /\ last'.status = Good
            THEN /\ Cardinality(Changed) = 1
                 /\ \A i \in Changed : /\ entries[i] <= UA_NODEMAP_TOMBSTONE
                                       /\ entries'[i] > UA_NODEMAP_TOMBSTONE
                                       /\ entries'[i] \notin DOMAIN heap
            ELSE IF last'.op = "remove" /\ last'.status = Good
            THEN /\ Cardinality(Changed) = 1
                 /\ \A i \in Changed : /\ entries[i] > UA_NODEMAP_TOMBSTONE
                                       /\ entries'[i] = UA_NODEMAP_TOMBSTONE
            ELSE IF last'.op = "replace" /\ last'.status = Good
            THEN /\ Cardinality(Changed) = 1
                 /\ \A i \in Changed : /\ entries[i] > UA_NODEMAP_TOMBSTONE
                                       /\ entries'[i] > UA_NODEMAP_TOMBSTONE
                                       /\ entries'[i] \in DOMAIN copies
            ELSE Changed = {}]_vars

\* insert has just put a node into the slot that held the tombstone of the entry
\* removed under this NodeId (still borrowed), in the array the store began with
C19_Witness ==
    /\ last.op = "insert"
    /\ last.status = Good
    /\ size = primes[higher_prime_index(UA_NODEMAP_MINSIZE) + 1]
    /\ Tombstones = {}
    /\ \E a \in DOMAIN borrowed : heap[a].deleted /\ heap[a].nodeId = last.id

-----------------------------------------------------------------------------
(* Deferred deletion *)

\* C20: after every operation, an allocated entry marked deleted is in no slot and
\* has refCount > 0 (a deleted entry with refCount 0 was freed before the operation
\* returned), and no operation adds a reference to an entry that is marked deleted
C20_DeletedEntriesArePinned ==
    [][/\ \A a \in DOMAIN heap' :
             heap'[a].deleted =>
                /\ \A i \in 0..(size' - 1) : entries'[i] # a
                /\ heap'[a].refCount > 0
       /\ \A a \in DOMAIN heap \cap DOMAIN heap' :
             heap[a].deleted =>
                /\ heap'[a].deleted
                /\ heap'[a].refCount <= heap[a].refCount
                /\ Pins(a)' <= Pins(a)]_vars

\* a remove or replace has just marked an entry deleted that is still borrowed or
\* pinned, so it stays allocated
C20_Witness ==
    /\ last.op \in {"remove", "replace"}
    /\ last.status = Good
    /\ \E a \in DOMAIN heap :
          /\ heap[a].deleted
          /\ heap[a].refCount > 0
          /\ heap[a].nodeId = last.id

-----------------------------------------------------------------------------
(* replace of a borrowed node *)

\* C21: a successful replace changes exactly the slot that held the copy's orig,
\* which now holds the copy with orig's cached hash; size, count and every other
\* slot are unchanged; the lookup of the NodeId finds the copy; orig is marked
\* deleted, and while callers that got it before the replace hold it, it stays
\* allocated with the contents it had
C21_ReplaceSwapsOneSlot ==
    [][last'.op = "replace" /\ last'.status = Good =>
         \A c \in Consumed :
            LET orig == heap[c].orig
                slot == findOccupiedSlot(entries, size, heap, last'.id)
            IN /\ slot # NoSlot
               /\ entries[slot] = orig
               /\ entries' = [entries EXCEPT ![slot] = c]
               /\ UNCHANGED <<size, count, sizePrimeIndex>>
               /\ heap'[c].nodeIdHash = heap[orig].nodeIdHash
               /\ heap'[c].val = heap[c].val
               /\ found(theTable', heap', last'.id) = c
               /\ orig \in DOMAIN heap' => heap'[orig].deleted
               /\ Pins(orig) > 0 =>
                     /\ orig \in DOMAIN heap'
                     /\ heap'[orig].val = heap[orig].val
                     /\ heap'[orig].nodeId = heap[orig].nodeId]_vars

\* replace has just succeeded for a node that callers had got before and not
\* released
C21_Witness ==
    /\ last.op = "replace"
    /\ last.status = Good
    /\ \E a \in DOMAIN borrowed : a # bindings[last.id] /\ borrowed[a] > 0

-----------------------------------------------------------------------------
(* The search for a free identifier *)

\* the table in which insertNode looks for a slot: rebuilt first when
\* size * 3 <= count * 4
tableForInsert ==
    IF size * 3 <= count * 4 THEN expand(theTable, count, heap, TRUE).tbl ELSE theTable

\* C22: in every state, the do-while loop that tries identifiers for a node inserted
\* with numeric identifier 0 ends: within the passes after which it could only
\* repeat itself it has found a free slot for an identifier that no node present
\* has, or has come back to its first identifier
C22_IdentifierSearchEnds ==
    LET ch == chooseSlot(tableForInsert, count, heap, 0)
    IN /\ ch.done
       /\ ch.slot # NoSlot =>
             /\ ch.numeric \notin PresentIds
             /\ tableForInsert.entries[ch.slot] <= UA_NODEMAP_TOMBSTONE

\* insert of a node with identifier 0 has just ended with an identifier from the
\* part of the search that cycles through the values below size
C22_Witness ==
    /\ last.op = "insert0"
    /\ last.status = Good
    /\ last.id < size
    /\ count > ZeroIdTries

-----------------------------------------------------------------------------
(* insert when the resize gets no memory *)

\* C23: an insert that finds size * 3 <= count * 4 either resizes the table or, when
\* the new array cannot be allocated, returns Internal and leaves the store as it
\* was: the same array with the same slots, size, count, and every entry unchanged;
\* insert returns Internal in no other case
C23_InsertResizeFailureChangesNothing ==
    [][last'.op \in {"insert", "insert0"} =>
         /\ last'.status = BadInternalError =>
               /\ size * 3 <= count * 4
               /\ UNCHANGED <<entries, size, count, sizePrimeIndex, bindings, borrowed>>
               /\ \A a \in DOMAIN heap : a \in DOMAIN heap' /\ heap'[a] = heap[a]
               /\ \A k \in DOMAIN bindings : found(theTable', heap', k) = bindings[k]
         /\ size * 3 <= count * 4 /\ last'.status # BadInternalError => size' > size]_vars

\* insert of a NodeId that is not present has just failed with Internal in a table
\* of 7 slots that holds 6 nodes
C23_Witness ==
    /\ last.op = "insert"
    /\ last.status = BadInternalError
    /\ last.id \notin DOMAIN bindings
    /\ size = primes[1]
    /\ count = 6

-----------------------------------------------------------------------------
(* insert raced by another writer *)

\* C24: when the slot that findFreeSlot chose for the node no longer holds what it
\* held then at the time of the compare-and-swap, insert returns Internal, does not
\* increment count and leaves every slot as the other writer wrote it
C24_LostPublishIsInternal ==
    [][last'.op = "insert_raced" /\ pending.pc = "cas"
          /\ entries[pending.slot] # pending.free =>
         /\ last'.status = BadInternalError
         /\ count' = count
         /\ entries' = entries]_vars

\* the raced insert has just returned NodeIdExists for a NodeId that no entry in the
\* table has: another writer's entry is in the slot
C24_Witness ==
    /\ last.op = "insert_raced"
    /\ last.status = BadNodeIdExists
    /\ pending.pc = "idle"
    /\ last.id \notin PresentIds
    /\ count > 0

-----------------------------------------------------------------------------
(* refCount and the outstanding borrows *)

\* C25: the refCount of every entry equals the number of its outstanding borrows
\* (gets not yet released, plus one while a running iterate has it pinned), also for
\* as many borrows as a 16-bit counter may be asked to hold, and every release that
\* matches an earlier get finds refCount > 0
C25_RefCountCountsBorrows ==
    [][/\ \A a \in DOMAIN heap' : heap'[a].refCount = Pins(a)'
       /\ last'.op = "release" =>
             \A a \in DOMAIN borrowed :
                 Borrows(a)' < Borrows(a) => heap[a].refCount > 0]_vars

\* one of 65536 holders of an entry has released it: refCount went from 0 to 65535
C25_Witness ==
    /\ last.op = "release"
    /\ TotalBorrows = ManyBorrows - 1
    /\ \E a \in DOMAIN borrowed \cap DOMAIN heap :
          /\ Borrows(a) = ManyBorrows - 1
          /\ heap[a].refCount = RefCountMod - 1

-----------------------------------------------------------------------------
(* replace of a copy whose original is gone *)

\* C26: replace of a copy succeeds only if no remove and no replace of its NodeId
\* has succeeded since get_copy made the copy; otherwise it fails and the table keeps
\* what it holds, such as a node inserted with the same NodeId after the remove, also
\* when that node's entry got the address of the freed original
C26_ReplaceNeedsLiveOriginal ==
    [][last'.op = "replace" =>
         \A c \in Consumed :
            copies[c].removed \/ copies[c].replaced =>
               /\ last'.status # Good
               /\ UNCHANGED <<entries, bindings>>]_vars

\* replace has just refused with Internal a copy whose original was removed: the
\* table holds a node that was inserted with the same NodeId afterwards
C26_Witness ==
    /\ last.op = "replace"
    /\ last.status = BadInternalError
    /\ last.id \in DOMAIN bindings
    /\ heap[bindings[last.id]].orig = NULL
    /\ findOccupiedSlot(entries, size, heap, last.id) # NoSlot

-----------------------------------------------------------------------------
(* The sample callback's reference to the node *)

\* what C27 says of one state: a running sample callback that got a node holds it
\* (one get, no release yet, the entry allocated with the NodeId and a reference
\* counted), no use of the value found the node released or freed, and a callback
\* that has ended has released the node once if it got one and not at all if not
SampleHoldsNode ==
    /\ ~sample.stale
    /\ sample.gets = (IF sample.node = NULL THEN 0 ELSE 1)
    /\ TotalBorrows = sample.gets - sample.releases
    /\ sample.pc # "idle" =>
          /\ sample.releases = 0
          /\ sample.node # NULL =>
                /\ sample.node \in DOMAIN heap
                /\ heap[sample.node].nodeId = sample.nodeid
                /\ heap[sample.node].refCount = 1
                /\ Borrows(sample.node) = 1
    /\ sample.pc = "idle" => sample.releases = sample.gets

\* C27: on every path through monitoredItem_sampleCallback the node that get returned
\* is released exactly once, after the last use of the sampled value that may point
\* into it, and nothing is released when get returned no node
C27_SampledNodeReleasedOnce ==
    /\ []SampleHoldsNode
    /\ (sample.pc # "idle") ~> (sample.pc = "idle")

\* a sample callback without a subscription has ended: its value pointed into the
\* node, the node was removed while the local callback ran, and the release at the
\* end reclaimed it
C27_Witness ==
    /\ sample.pc = "idle"
    /\ sample.called
    /\ sample.storageType = "NODELETE"
    /\ sample.releases = 1
    /\ sample.node \notin DOMAIN heap
    /\ last.op = "remove"
    /\ last.status = Good

====
